---- MODULE Spec2Model ----
(***************************************************************************)
(* A model of rust-skeptic (src/src/skeptic/lib.rs): extraction of code    *)
(* blocks from markdown documents, assembly of one test function per       *)
(* block, the writer of the generated file, and the runtime harness (rt).  *)
(*                                                                         *)
(* Text is a sequence of symbols.  A symbol is a one-character string, or  *)
(* one of the fixed literals of the generator's format strings (written    *)
(* as one symbol, e.g. "#[test] fn "); user text is built from              *)
(* one-character symbols and the placeholder "{}" only, so two texts are   *)
(* byte-identical exactly when their symbol sequences are equal.           *)
(***************************************************************************)
EXTENDS Integers, Sequences, FiniteSets, TLC

VARIABLES
    \* create_test_input / clean_omitted_line (pure functions)
    lines,          \* the argument of create_test_input
    cleaned,        \* results of successive clean_omitted_line applications
    test_input,     \* the result of create_test_input, None before the call
    \* parse_code_block_info (pure function)
    info,           \* the info string
    code_block_info,\* the CodeBlockInfo returned, None before the call
    \* TestNameGen (pure object)
    file_stem,      \* path.file_stem() of the document
    test_name_gen,  \* the TestNameGen, None before TestNameGen::new
    names,          \* the names returned by advance(), in order
    \* the generation pass: run(config)
    docs,           \* config.docs
    pass,           \* number of the generation pass (build script run)
    pc,             \* extract | parse | emit | done | panicked
    error,          \* the panic message of the pass, None while it runs
    di,             \* extract_tests: index of the document in config.docs
    nev,            \* events the markdown parser has yielded so far
    open_block,     \* parser: the code block being read, [info, text], or None
    blocks,         \* parser: the code blocks of this document closed so far
    code_buffer,    \* extract_tests_from_file: code_buffer
    tests,          \* extract_tests_from_file: tests
    old_template,   \* extract_tests_from_file: old_template
    name_gen,       \* extract_tests_from_file: test_name_gen
    doc_tests,      \* extract_tests: doc_tests, then suite.doc_tests
    ei, ti,         \* emit_tests: the loops' position (document, test)
    out,            \* emit_tests: out
    units,          \* emit_tests: the test_string of each test pushed to out
    artifact,       \* the file at config.out_file: Some(content) or None
    mtime,          \* number of times the file at config.out_file was created
    start,          \* [artifact, mtime] when the pass began
    \* the runtime harness: skeptic::rt, called by the generated tests
    rt_test,        \* the Test a generated test function was assembled from
    rt_unit,        \* the text of that generated test function
    inv,            \* the invocations of the function by the test framework
    tmp,            \* the temporary directories that exist: id -> [src, bin]
    next_tmp,       \* number of temporary directories created so far
    cmds,           \* the commands run so far: [inv, cmd, arg, ok]
    \* rt::compile_test_case: the arguments of the compiler (pure function)
    deps_dir,       \* the names of the files fs::read_dir(deps_dir) yields
    cmd_args        \* what became of cmd, None before the call

cleanvars == <<lines, cleaned, test_input>>
infovars  == <<info, code_block_info>>
namevars  == <<file_stem, test_name_gen, names>>
parsevars == <<open_block, blocks, code_buffer, tests, old_template, name_gen>>
emitvars  == <<ei, ti, out, units>>
filevars  == <<artifact, mtime, start>>
genvars   == <<docs, pass, pc, error, di, nev, parsevars, doc_tests, emitvars, filevars>>
callvars  == <<rt_test, rt_unit, inv, tmp, next_tmp, cmds>>
depsvars  == <<deps_dir, cmd_args>>
rtvars    == <<callvars, depsvars>>
vars == <<cleanvars, infovars, namevars, genvars, rtvars>>

(***************************************************************************)
(* Bounds of the model.                                                    *)
(***************************************************************************)
MaxLineLen == 4     \* symbols in an exhaustively enumerated line
MaxLines == 2       \* lines of a multi-line create_test_input argument
MaxPieces == 3      \* pieces an info string is put together from
MaxStemLen == 3     \* characters of a file stem
MaxAdvance == 2     \* calls of TestNameGen::advance on one generator
MaxDocs == 2        \* documents in config.docs
MaxEvents == 5      \* parser events over all passes of a behaviour
MaxPasses == 2      \* generation passes of a behaviour
MaxInvocations == 2 \* invocations of a generated test function
MaxDeps == 2        \* files of the dependency directory around the one varied
MaxNameParts == 3   \* pieces the varied file's name is put together from

(***************************************************************************)
(* Option<T>                                                               *)
(***************************************************************************)
None == <<"None">>
Some(x) == <<"Some", x>>
IsSome(o) == o[1] = "Some"
Unwrap(o) == o[2]

(***************************************************************************)
(* Characters.  Eacute / eacute stand for the single characters U+00C9 and *)
(* U+00E9: letters outside ASCII, alphanumeric for char::is_alphanumeric.  *)
(***************************************************************************)
AsciiLowerSeq == <<"a","b","c","d","e","f","g","h","i","j","k","l","m",
                   "n","o","p","q","r","s","t","u","v","w","x","y","z">>
AsciiUpperSeq == <<"A","B","C","D","E","F","G","H","I","J","K","L","M",
                   "N","O","P","Q","R","S","T","U","V","W","X","Y","Z">>
AsciiLower == {AsciiLowerSeq[i] : i \in 1..26}
AsciiUpper == {AsciiUpperSeq[i] : i \in 1..26}
Digit == {"0","1","2","3","4","5","6","7","8","9"}
NonAsciiLetter == {"Eacute", "eacute"}
WhiteSpace == {" ", "\t", "\n", "\r"}

is_alphanumeric(c) == c \in AsciiLower \cup AsciiUpper \cup Digit \cup NonAsciiLetter
is_whitespace(c) == c \in WhiteSpace

starts_with(s, p) == Len(s) >= Len(p) /\ SubSeq(s, 1, Len(p)) = p
\* &s[n..]
SliceFrom(s, n) == SubSeq(s, n + 1, Len(s))

RECURSIVE Concat(_)
\* Iterator<Item = &str>::collect::<String>()
Concat(ss) == IF ss = <<>> THEN <<>> ELSE Head(ss) \o Concat(Tail(ss))

(***************************************************************************)
(* clean_omitted_line, create_test_input                                   *)
(***************************************************************************)
RECURSIVE trim_left(_)
trim_left(s) ==
    IF s # <<>> /\ is_whitespace(Head(s)) THEN trim_left(Tail(s)) ELSE s

RECURSIVE clean_omitted_line_all(_)
\* the mutant: strips every leading marker, not only the first
clean_omitted_line_all(line) ==
    LET trimmed == trim_left(line) IN
    IF trimmed = <<"#", "\n">> THEN SliceFrom(trimmed, 1)
    ELSE IF starts_with(trimmed, <<"#", " ">>)
         THEN clean_omitted_line_all(SliceFrom(trimmed, 2))
    ELSE line

\* the mutant: also drops the indentation of a line that carries no marker
clean_omitted_line_trims(line) ==
    LET trimmed == trim_left(line) IN
    IF trimmed = <<"#", "\n">> THEN SliceFrom(trimmed, 1)
    ELSE IF starts_with(trimmed, <<"#", " ">>) THEN SliceFrom(trimmed, 2)
    ELSE trimmed

clean_omitted_line(line) ==
    LET trimmed == trim_left(line) IN
    IF trimmed = <<"#", "\n">> THEN SliceFrom(trimmed, 1)
    ELSE IF starts_with(trimmed, <<"#", " ">>) THEN SliceFrom(trimmed, 2)
    ELSE line

create_test_input(ls) ==
    Concat([i \in 1..Len(ls) |-> clean_omitted_line(ls[i])])


(***************************************************************************)
(* SpecClean: create_test_input and clean_omitted_line on bounded inputs.  *)
(***************************************************************************)
SeqsUpTo(S, n) == UNION {[1..k -> S] : k \in 0..n}

CleanChars == {" ", "\t", "#", "\n", "a"}

\* the lines of the crate's own test, test_omitted_lines, identifiers shortened
TestOmittedLines == <<
    <<"#", " ", "u", ";", "\n">>,
    <<"#", "\n">>,
    <<"#", "[", "a", "]", "\n">>,
    <<"f", " ", "{", "\n">>,
    <<" ", " ", " ", " ", "m", ";", "\n">>,
    <<" ", " ", " ", " ", "#", "\n">>,
    <<" ", " ", " ", " ", "#", " ", "l", ";", "\n">>,
    <<"}", "\n">> >>
TestOmittedExpected ==
    <<"u", ";", "\n">> \o <<"\n">> \o <<"#", "[", "a", "]", "\n">>
    \o <<"f", " ", "{", "\n">> \o <<" ", " ", " ", " ", "m", ";", "\n">>
    \o <<"\n">> \o <<"l", ";", "\n">> \o <<"}", "\n">>
SampleLines == {TestOmittedLines[i] : i \in 1..Len(TestOmittedLines)}

CleanInputs ==
    {<<l>> : l \in SeqsUpTo(CleanChars, MaxLineLen)}
    \cup SeqsUpTo(SampleLines, MaxLines)
    \cup {TestOmittedLines}

CleanIdle == lines = <<>> /\ cleaned = <<>> /\ test_input = None
InfoIdle == info = <<>> /\ code_block_info = None
NameIdle == file_stem = <<>> /\ test_name_gen = None /\ names = <<>>

\* no generation pass is running
GenIdle ==
    /\ docs = <<>> /\ pass = 0 /\ pc = "idle" /\ error = None
    /\ di = 0 /\ nev = 0
    /\ open_block = None /\ blocks = <<>> /\ code_buffer = None
    /\ tests = <<>> /\ old_template = None /\ name_gen = None
    /\ doc_tests = <<>>
    /\ ei = 0 /\ ti = 0 /\ out = <<>> /\ units = <<>>
    /\ artifact = None /\ mtime = 0 /\ start = None

\* no generated test function exists
DepsIdle == deps_dir = <<>> /\ cmd_args = None
RtIdle ==
    /\ rt_test = None /\ rt_unit = <<>> /\ inv = <<>>
    /\ tmp = <<>> /\ next_tmp = 0 /\ cmds = <<>>
    /\ DepsIdle

InitClean ==
    /\ lines \in CleanInputs
    /\ cleaned = <<>>
    /\ test_input = None
    /\ InfoIdle /\ NameIdle /\ GenIdle /\ RtIdle

\* clean_omitted_line(&lines[i]); cleaned = <<the line, its cleaned form>>
CleanLine ==
    /\ cleaned = <<>>
    /\ \E i \in 1..Len(lines) :
          cleaned' = <<lines[i], clean_omitted_line(lines[i])>>
    /\ UNCHANGED <<lines, test_input, infovars, namevars, genvars, rtvars>>

\* clean_omitted_line applied to its own result
CleanLineAgain ==
    /\ Len(cleaned) = 2
    /\ cleaned' = Append(cleaned, clean_omitted_line(cleaned[2]))
    /\ UNCHANGED <<lines, test_input, infovars, namevars, genvars, rtvars>>

CreateTestInput ==
    /\ test_input = None
    /\ test_input' = Some(create_test_input(lines))
    /\ UNCHANGED <<lines, cleaned, infovars, namevars, genvars, rtvars>>

NextClean == CleanLine \/ CleanLineAgain \/ CreateTestInput
SpecClean == InitClean /\ [][NextClean]_vars

\* number of leading whitespace characters of s
LeadingWs(s) ==
    CHOOSE k \in 0..Len(s) :
        /\ \A i \in 1..k : s[i] \in WhiteSpace
        /\ k < Len(s) => s[k + 1] \notin WhiteSpace
\* s without its first n symbols
Drop(s, n) == [i \in 1..(Len(s) - n) |-> s[i + n]]
\* after the leading whitespace: exactly "#\n"
BareMarker(s) ==
    LET k == LeadingWs(s) IN
    Len(s) = k + 2 /\ s[k + 1] = "#" /\ s[k + 2] = "\n"
\* after the leading whitespace: "# " and anything
SpaceMarker(s) ==
    LET k == LeadingWs(s) IN
    Len(s) >= k + 2 /\ s[k + 1] = "#" /\ s[k + 2] = " "

\* C1 (as claimed): clean_omitted_line is idempotent on every line:
\* cleaning the cleaned line changes nothing.
C1_Idempotent == Len(cleaned) = 3 => cleaned[3] = cleaned[2]

\* C1 (amended): clean_omitted_line strips one marker only.  Cleaning twice
\* equals cleaning once exactly for the lines whose content after the first
\* "# " marker does not itself (after its leading whitespace) start with "# "
\* or equal "#\n"; on the other lines the second application strips a
\* further marker and the result differs.
C1_IdempotentUnlessNestedMarker ==
    Len(cleaned) = 3 =>
        LET line == cleaned[1]
            rest == Drop(line, LeadingWs(line) + 2)
            nested == SpaceMarker(line) /\ (SpaceMarker(rest) \/ BareMarker(rest))
        IN  (cleaned[3] = cleaned[2]) <=> ~nested

\* C1 witness: an indented marked line, cleaned twice, the second time unchanged
C1_Witness ==
    /\ Len(cleaned) = 3
    /\ LeadingWs(cleaned[1]) > 0
    /\ SpaceMarker(cleaned[1])
    /\ cleaned[2] # cleaned[1]
    /\ cleaned[3] = cleaned[2]

\* what the claim says one line becomes
C7_Line(l) ==
    IF BareMarker(l) THEN <<"\n">>
    ELSE IF SpaceMarker(l) THEN Drop(l, LeadingWs(l) + 2)
    ELSE l

RECURSIVE C7_Join(_, _)
C7_Join(ls, i) == IF i > Len(ls) THEN <<>> ELSE C7_Line(ls[i]) \o C7_Join(ls, i + 1)

\* C7: create_test_input returns the in-order concatenation of the cleaned
\* lines: "#\n" after indentation becomes "\n", "# x" after indentation
\* becomes "x" (indentation dropped), any other line is emitted unchanged,
\* leading whitespace included; and the crate's test vector gives its
\* expected text.
C7_CreateTestInput ==
    test_input # None =>
        /\ Unwrap(test_input) = C7_Join(lines, 1)
        /\ lines = TestOmittedLines => Unwrap(test_input) = TestOmittedExpected

\* C7 witness: two lines, an indented marked one and an indented plain one
\* whose indentation is kept
C7_Witness ==
    /\ test_input # None
    /\ Len(lines) = 2
    /\ SpaceMarker(lines[1]) /\ LeadingWs(lines[1]) > 0
    /\ ~SpaceMarker(lines[2]) /\ ~BareMarker(lines[2]) /\ LeadingWs(lines[2]) > 0
    /\ Unwrap(test_input) = Drop(lines[1], LeadingWs(lines[1]) + 2) \o lines[2]


(***************************************************************************)
(* parse_code_block_info                                                   *)
(***************************************************************************)
TokRust == <<"r","u","s","t">>
TokShouldPanic == <<"s","h","o","u","l","d","_","p","a","n","i","c">>
TokIgnore == <<"i","g","n","o","r","e">>
TokNoRun == <<"n","o","_","r","u","n">>
TokSkepticTemplate == <<"s","k","e","p","t","i","c","-","t","e","m","p","l","a","t","e">>
TokSktPrefix == <<"s","k","t","-">>

IsTokenChar(c) == c = "_" \/ c = "-" \/ is_alphanumeric(c)

RECURSIVE SplitTokens(_, _)
\* info.split(|c| !(c == '_' || c == '-' || c.is_alphanumeric())): the runs
\* between separators, empty runs included; cur is the run being read
SplitTokens(s, cur) ==
    IF s = <<>> THEN <<cur>>
    ELSE IF IsTokenChar(Head(s)) THEN SplitTokens(Tail(s), Append(cur, Head(s)))
    ELSE <<cur>> \o SplitTokens(Tail(s), <<>>)

NewCodeBlockInfo ==
    [is_rust |-> FALSE, should_panic |-> FALSE, ignore |-> FALSE,
     no_run |-> FALSE, is_old_template |-> FALSE, template |-> None]

\* the mutant: the marker "rust" is not counted among the recognized tags
MatchToken_marker_uncounted(st, token) ==
    IF token = <<>> THEN st
    ELSE IF token = TokRust THEN [st EXCEPT !.info.is_rust = TRUE]
    ELSE IF token = TokShouldPanic
         THEN [st EXCEPT !.info.should_panic = TRUE, !.seen_rust_tags = TRUE]
    ELSE IF token = TokIgnore
         THEN [st EXCEPT !.info.ignore = TRUE, !.seen_rust_tags = TRUE]
    ELSE IF token = TokNoRun
         THEN [st EXCEPT !.info.no_run = TRUE, !.seen_rust_tags = TRUE]
    ELSE IF token = TokSkepticTemplate
         THEN [st EXCEPT !.info.is_old_template = TRUE, !.seen_rust_tags = TRUE]
    ELSE IF starts_with(token, TokSktPrefix)
         THEN [st EXCEPT !.info.template = Some(SliceFrom(token, 4)),
                         !.seen_rust_tags = TRUE]
    ELSE [st EXCEPT !.seen_other_tags = TRUE]

\* the mutant: a template-prefix token clears the legacy-template flag
MatchToken_exclusive(st, token) ==
    IF token = <<>> THEN st
    ELSE IF token = TokRust
         THEN [st EXCEPT !.info.is_rust = TRUE, !.seen_rust_tags = TRUE]
    ELSE IF token = TokShouldPanic
         THEN [st EXCEPT !.info.should_panic = TRUE, !.seen_rust_tags = TRUE]
    ELSE IF token = TokIgnore
         THEN [st EXCEPT !.info.ignore = TRUE, !.seen_rust_tags = TRUE]
    ELSE IF token = TokNoRun
         THEN [st EXCEPT !.info.no_run = TRUE, !.seen_rust_tags = TRUE]
    ELSE IF token = TokSkepticTemplate
         THEN [st EXCEPT !.info.is_old_template = TRUE, !.seen_rust_tags = TRUE]
    ELSE IF starts_with(token, TokSktPrefix)
         THEN [st EXCEPT !.info.template = Some(SliceFrom(token, 4)),
                         !.info.is_old_template = FALSE,
                         !.seen_rust_tags = TRUE]
    ELSE [st EXCEPT !.seen_other_tags = TRUE]

\* one iteration of `for token in tokens { match token { ... } }`
MatchToken(st, token) ==
    IF token = <<>> THEN st
    ELSE IF token = TokRust
         THEN [st EXCEPT !.info.is_rust = TRUE, !.seen_rust_tags = TRUE]
    ELSE IF token = TokShouldPanic
         THEN [st EXCEPT !.info.should_panic = TRUE, !.seen_rust_tags = TRUE]
    ELSE IF token = TokIgnore
         THEN [st EXCEPT !.info.ignore = TRUE, !.seen_rust_tags = TRUE]
    ELSE IF token = TokNoRun
         THEN [st EXCEPT !.info.no_run = TRUE, !.seen_rust_tags = TRUE]
    ELSE IF token = TokSkepticTemplate
         THEN [st EXCEPT !.info.is_old_template = TRUE, !.seen_rust_tags = TRUE]
    ELSE IF starts_with(token, TokSktPrefix)
         THEN [st EXCEPT !.info.template = Some(SliceFrom(token, 4)),
                         !.seen_rust_tags = TRUE]
    ELSE [st EXCEPT !.seen_other_tags = TRUE]

RECURSIVE MatchTokens(_, _)
MatchTokens(st, tokens) ==
    IF tokens = <<>> THEN st
    ELSE MatchTokens(MatchToken(st, Head(tokens)), Tail(tokens))

parse_code_block_info(s) ==
    LET st == MatchTokens([info |-> NewCodeBlockInfo,
                           seen_rust_tags |-> FALSE,
                           seen_other_tags |-> FALSE],
                          SplitTokens(s, <<>>))
    IN  [st.info EXCEPT !.is_rust =
            st.info.is_rust /\ (~st.seen_other_tags \/ st.seen_rust_tags)]

(***************************************************************************)
(* SpecInfo: parse_code_block_info on bounded info strings, each put       *)
(* together from at most MaxPieces pieces: the recognized words, the       *)
(* template prefix, a letter and two separators.                           *)
(***************************************************************************)
InfoPieces ==
    {TokRust, TokShouldPanic, TokIgnore, TokNoRun, TokSkepticTemplate,
     TokSktPrefix, <<"t">>, <<",">>, <<" ">>}
InfoInputs == {Concat(ps) : ps \in SeqsUpTo(InfoPieces, MaxPieces)}

InitInfo ==
    /\ info \in InfoInputs
    /\ code_block_info = None
    /\ CleanIdle /\ NameIdle /\ GenIdle /\ RtIdle

ParseCodeBlockInfo ==
    /\ code_block_info = None
    /\ code_block_info' = Some(parse_code_block_info(info))
    /\ UNCHANGED <<info, cleanvars, namevars, genvars, rtvars>>

NextInfo == ParseCodeBlockInfo
SpecInfo == InitInfo /\ [][NextInfo]_vars

\* the tokens of s: the maximal non-empty runs of token characters
TokenStarts(s) ==
    {i \in 1..Len(s) : IsTokenChar(s[i]) /\ (i = 1 \/ ~IsTokenChar(s[i - 1]))}
TokenEnds(s) ==
    {j \in 1..Len(s) : IsTokenChar(s[j]) /\ (j = Len(s) \/ ~IsTokenChar(s[j + 1]))}
TokensOf(s) ==
    {SubSeq(s, i, CHOOSE j \in TokenEnds(s) :
                     j >= i /\ \A k \in TokenEnds(s) : k >= i => j <= k) :
        i \in TokenStarts(s)}
IsTemplateToken(t) == Len(t) >= 4 /\ SubSeq(t, 1, 4) = TokSktPrefix /\ t # TokSkepticTemplate
ControlTokens == {TokShouldPanic, TokIgnore, TokNoRun, TokSkepticTemplate}
IsControlToken(t) == t \in ControlTokens \/ IsTemplateToken(t)
IsUnrecognized(t) == t # TokRust /\ ~IsControlToken(t)

\* C8 (as claimed): a block is runnable only if its info string has the
\* marker "rust" and either no unrecognized token or at least one of the
\* control tokens should_panic, ignore, no_run, skeptic-template, skt-<name>.
C8_RunnableOnlyIfControlled ==
    code_block_info # None =>
        (Unwrap(code_block_info).is_rust =>
            /\ TokRust \in TokensOf(info)
            /\ \/ \A t \in TokensOf(info) : ~IsUnrecognized(t)
               \/ \E t \in TokensOf(info) : IsControlToken(t))

\* C8 (amended): the marker itself counts as a recognized tag, so a block is
\* runnable exactly when its info string contains the token "rust", whatever
\* unrecognized tokens accompany it; without the marker it is never runnable.
C8_RunnableIffMarker ==
    code_block_info # None =>
        (Unwrap(code_block_info).is_rust <=> TokRust \in TokensOf(info))

\* C8 witness: the marker with an unrecognized token only, parsed as runnable
C8_Witness ==
    /\ code_block_info # None
    /\ Unwrap(code_block_info).is_rust
    /\ \E t \in TokensOf(info) : IsUnrecognized(t)
    /\ \A t \in TokensOf(info) : ~IsControlToken(t)

\* C9 (as claimed): at most one of is_old_template and template is set.
C9_AtMostOneTemplateKind ==
    code_block_info # None =>
        ~(Unwrap(code_block_info).is_old_template
          /\ Unwrap(code_block_info).template # None)

\* C9 (amended): the two are set independently: is_old_template exactly when
\* the info string has the token skeptic-template, template exactly when it
\* has a token starting with skt-; so at most one is set unless the info
\* string contains both, and then both are set.
C9_TemplateKindsIndependent ==
    code_block_info # None =>
        /\ Unwrap(code_block_info).is_old_template
              <=> TokSkepticTemplate \in TokensOf(info)
        /\ Unwrap(code_block_info).template # None
              <=> \E t \in TokensOf(info) : IsTemplateToken(t)

\* C9 witness: an info string with both markers, parsed with both set
C9_Witness ==
    /\ code_block_info # None
    /\ TokSkepticTemplate \in TokensOf(info)
    /\ \E t \in TokensOf(info) : IsTemplateToken(t)
    /\ Unwrap(code_block_info).is_old_template
    /\ Unwrap(code_block_info).template # None


(***************************************************************************)
(* TestNameGen, sanitize_test_name, to_lowercase                           *)
(***************************************************************************)
\* u8::to_ascii_lowercase on one character: only A-Z change
to_ascii_lowercase_char(c) ==
    IF c \in AsciiUpper
    THEN AsciiLowerSeq[CHOOSE i \in 1..26 : AsciiUpperSeq[i] = c]
    ELSE c

\* s.to_ascii_lowercase()  (FIXME: unicode)
to_lowercase(s) == [i \in 1..Len(s) |-> to_ascii_lowercase_char(s[i])]

sanitize_test_name(s) ==
    LET l == to_lowercase(s) IN
    [i \in 1..Len(l) |-> IF is_alphanumeric(l[i]) THEN l[i] ELSE "_"]

DigitSeq == <<"0","1","2","3","4","5","6","7","8","9">>
RECURSIVE Decimal(_)
\* Display of a non-negative i32
Decimal(n) ==
    IF n < 10 THEN <<DigitSeq[n + 1]>>
    ELSE Decimal(n \div 10) \o <<DigitSeq[(n % 10) + 1]>>

\* TestNameGen::new(path), file_stem = path.file_stem()
TestNameGen_new(stem) == [root |-> sanitize_test_name(stem), count |-> 0]
\* the mutant: the counter is incremented before the name is formatted
TestNameGen_name_incremented(g) == g.root \o <<"_">> \o Decimal(g.count + 1)
\* the String TestNameGen::advance returns: format!("{}_{}", self.root, count)
TestNameGen_name(g) == g.root \o <<"_">> \o Decimal(g.count)
\* the generator after TestNameGen::advance: self.count += 1
TestNameGen_advanced(g) == [g EXCEPT !.count = g.count + 1]

(***************************************************************************)
(* SpecName: TestNameGen on bounded file stems.                            *)
(***************************************************************************)
StemChars == {"d", "M", "2", "-", ".", "Eacute"}
StemInputs == SeqsUpTo(StemChars, MaxStemLen) \ {<<>>}

InitName ==
    /\ file_stem \in StemInputs
    /\ test_name_gen = None
    /\ names = <<>>
    /\ CleanIdle /\ InfoIdle /\ GenIdle /\ RtIdle

NewTestNameGen ==
    /\ test_name_gen = None
    /\ test_name_gen' = Some(TestNameGen_new(file_stem))
    /\ UNCHANGED <<file_stem, names, cleanvars, infovars, genvars, rtvars>>

Advance ==
    /\ test_name_gen # None
    /\ Len(names) < MaxAdvance
    /\ names' = Append(names, TestNameGen_name(Unwrap(test_name_gen)))
    /\ test_name_gen' = Some(TestNameGen_advanced(Unwrap(test_name_gen)))
    /\ UNCHANGED <<file_stem, cleanvars, infovars, genvars, rtvars>>

NextName == NewTestNameGen \/ Advance
SpecName == InitName /\ [][NextName]_vars

\* ^[a-z0-9_]+_[0-9]+$
MatchesNamePattern(n) ==
    \E k \in 2..(Len(n) - 1) :
        /\ \A i \in 1..(k - 1) : n[i] \in AsciiLower \cup Digit \cup {"_"}
        /\ n[k] = "_"
        /\ \A i \in (k + 1)..Len(n) : n[i] \in Digit

\* C10: every generated test name matches ^[a-z0-9_]+_[0-9]+$ : every
\* non-alphanumeric character of the base name became "_" and every letter,
\* uppercase and non-ASCII included, was case-folded.
C10_NameMatchesPattern ==
    \A i \in 1..Len(names) : MatchesNamePattern(names[i])


(***************************************************************************)
(* The generation pass: run(config) = extract_tests, then emit_tests.      *)
(***************************************************************************)
\* config.root_dir and config.out_dir
RootDir == <<"/", "r">>
OutDir == <<"/", "o">>
\* the documents a build script may name
DocD == <<"d", ".", "m", "d">>
DocM2 == <<"M", "-", "2", ".", "m", "d">>
\* config.docs is a prefix of d.md, M-2.md, d.md, M-2.md, ...
DocAt(i) == IF i % 2 = 1 THEN DocD ELSE DocM2
DocLists == {[i \in 1..n |-> DocAt(i)] : n \in 0..MaxDocs}

\* path = config.root_dir.clone(); path.push(doc)
DocPath(doc) == RootDir \o <<"/">> \o doc

\* position of the last symbol c in s, 0 if there is none
LastIndexOf(s, c) ==
    IF \E i \in 1..Len(s) : s[i] = c
    THEN CHOOSE i \in 1..Len(s) : s[i] = c /\ \A j \in (i + 1)..Len(s) : s[j] # c
    ELSE 0
\* Path::file_name
FileName(path) == SliceFrom(path, LastIndexOf(path, "/"))
\* Path::file_stem: the file name up to its last ".", all of it if that "."
\* is missing or leads the name
FileStem(path) ==
    LET name == FileName(path)
        dot == LastIndexOf(name, ".")
    IN  IF dot <= 1 THEN name ELSE SubSeq(name, 1, dot - 1)

\* the info strings and text fragments of the documents
InfoRust == TokRust
InfoSh == <<"s", "h">>
InfoLegacy == TokRust \o <<",">> \o TokSkepticTemplate
InfoSktT == TokRust \o <<",">> \o TokSktPrefix \o <<"t">>
DocInfos == {InfoRust, InfoSh, InfoLegacy, InfoSktT}
FragA == <<"#", " ", "a", "\n">>
FragB == <<"{}", "\n">>
\* the text fragments of the documents; the sibling files use FragB too
Frags == {FragA}

\* Event::Start(Tag::CodeBlock(info)), Event::Text(text), Event::End(..)
EvStart(i) == [kind |-> "Start", arg |-> i]
EvText(t) == [kind |-> "Text", arg |-> t]
EvEnd(i) == [kind |-> "End", arg |-> i]

\* Event::Start(Tag::CodeBlock(ref info)) => { ... }: the new code_buffer
OnStart(buf, i) ==
    IF parse_code_block_info(i).is_rust THEN Some(<<>>) ELSE buf
\* the mutant: the text is stored whether or not a buffer is there
OnText_always(buf, text) ==
    IF buf # None THEN Some(Append(Unwrap(buf), text)) ELSE Some(<<text>>)
\* Event::Text(text) => { ... }: the new code_buffer
OnText(buf, text) ==
    IF buf # None THEN Some(Append(Unwrap(buf), text)) ELSE buf

\* HashMap
EmptyMap == [k \in {} |-> <<>>]
MapInsert(m, k, v) == [x \in DOMAIN m \cup {k} |-> IF x = k THEN v ELSE m[x]]
\* HashMap::get
MapGet(m, k) == IF k \in DOMAIN m THEN Some(m[k]) ELSE None

\* load_templates: one iteration of `for event in parser`; st = [buf, map]
LoadTemplatesEvent(st, ev) ==
    IF ev.kind = "Start" THEN [st EXCEPT !.buf = OnStart(st.buf, ev.arg)]
    ELSE IF ev.kind = "Text" THEN [st EXCEPT !.buf = OnText(st.buf, ev.arg)]
    ELSE IF ev.kind = "End" THEN
        LET cbi == parse_code_block_info(ev.arg) IN
        IF st.buf # None
        THEN [buf |-> None,
              map |-> IF cbi.template # None
                      THEN MapInsert(st.map, Unwrap(cbi.template), Concat(Unwrap(st.buf)))
                      ELSE st.map]
        ELSE st
    ELSE st

RECURSIVE LoadTemplatesEvents(_, _)
LoadTemplatesEvents(st, evs) ==
    IF evs = <<>> THEN st
    ELSE LoadTemplatesEvents(LoadTemplatesEvent(st, Head(evs)), Tail(evs))

\* the sibling <doc>.skt.md file a document may have: an unnamed block
\* (dropped), a non-runnable block, and the template t declared twice (the
\* later one is kept)
SiblingT == <<EvStart(InfoRust), EvText(FragA), EvEnd(InfoRust),
              EvStart(InfoSh), EvText(FragA), EvEnd(InfoSh),
              EvStart(InfoSktT), EvText(FragA), EvEnd(InfoSktT),
              [kind |-> "Other", arg |-> <<>>],
              EvStart(InfoSktT), EvText(FragB), EvText(FragA), EvEnd(InfoSktT)>>
SiblingFiles == {SiblingT}
\* what load_templates finds at <path>.skt.md
SiblingStates ==
    {[state |-> "absent"], [state |-> "unreadable"]}
    \cup {[state |-> "file", events |-> f] : f \in SiblingFiles}

\* load_templates(path), given what is at <path>.skt.md: Ok(map) or Err
load_templates(sibling) ==
    IF sibling.state = "absent" THEN [ok |-> TRUE, map |-> EmptyMap]
    ELSE IF sibling.state = "unreadable" THEN [ok |-> FALSE, map |-> EmptyMap]
    ELSE [ok |-> TRUE,
          map |-> LoadTemplatesEvents([buf |-> None, map |-> EmptyMap],
                                      sibling.events).map]

IoErrorMessage == <<"IoError">>

Init ==
    /\ docs \in DocLists
    /\ pass = 1
    /\ pc = "extract"
    /\ error = None
    /\ di = 1
    /\ nev = 0
    /\ open_block = None /\ blocks = <<>> /\ code_buffer = None
    /\ tests = <<>> /\ old_template = None /\ name_gen = None
    /\ doc_tests = <<>>
    /\ ei = 0 /\ ti = 0 /\ out = <<>> /\ units = <<>>
    /\ artifact \in {None, Some(<<"extern crate skeptic;", "\n">>)}
    /\ mtime = 0
    /\ start = [artifact |-> artifact, mtime |-> 0]
    /\ CleanIdle /\ InfoIdle /\ NameIdle /\ RtIdle

\* the mutant: a document that cannot be read is skipped
OpenDoc_skips_unreadable ==
    /\ pc = "extract"
    /\ di <= Len(docs)
    /\ \E readable \in BOOLEAN :
          IF readable
          THEN /\ pc' = "parse"
               /\ di' = di
               /\ tests' = <<>>
               /\ old_template' = None
               /\ name_gen' = Some(TestNameGen_new(FileStem(DocPath(docs[di]))))
               /\ code_buffer' = None
               /\ open_block' = None
               /\ blocks' = <<>>
          ELSE /\ pc' = pc
               /\ di' = di + 1
               /\ UNCHANGED parsevars
    /\ UNCHANGED <<docs, pass, error, nev, doc_tests, emitvars, filevars,
                   cleanvars, infovars, namevars, rtvars>>

\* extract_tests: the next document; extract_tests_from_file up to its loop.
\* File::open or read_to_string may fail: run's unwrap then panics.
OpenDoc ==
    /\ pc = "extract"
    /\ di <= Len(docs)
    /\ \E readable \in BOOLEAN :
          IF readable
          THEN /\ pc' = "parse"
               /\ error' = error
               /\ tests' = <<>>
               /\ old_template' = None
               /\ name_gen' = Some(TestNameGen_new(FileStem(DocPath(docs[di]))))
               /\ code_buffer' = None
               /\ open_block' = None
               /\ blocks' = <<>>
          ELSE /\ pc' = "panicked"
               /\ error' = Some(IoErrorMessage)
               /\ UNCHANGED parsevars
    /\ UNCHANGED <<docs, pass, di, nev, doc_tests, emitvars, filevars,
                   cleanvars, infovars, namevars, rtvars>>

\* the parser yields Event::Start(Tag::CodeBlock(info))
StartCodeBlock ==
    /\ pc = "parse"
    /\ nev < MaxEvents
    /\ open_block = None
    /\ \E i \in DocInfos :
          /\ open_block' = Some([info |-> i, text |-> <<>>])
          /\ code_buffer' = OnStart(code_buffer, i)
    /\ nev' = nev + 1
    /\ UNCHANGED <<docs, pass, pc, error, di, blocks, tests, old_template,
                   name_gen, doc_tests, emitvars, filevars,
                   cleanvars, infovars, namevars, rtvars>>

\* the parser yields Event::Text(text), inside a code block or in prose
Text ==
    /\ pc = "parse"
    /\ nev < MaxEvents
    /\ \E text \in Frags :
          /\ open_block' =
                IF open_block = None THEN None
                ELSE Some([Unwrap(open_block) EXCEPT !.text = Append(@, text)])
          /\ code_buffer' = OnText(code_buffer, text)
    /\ nev' = nev + 1
    /\ UNCHANGED <<docs, pass, pc, error, di, blocks, tests, old_template,
                   name_gen, doc_tests, emitvars, filevars,
                   cleanvars, infovars, namevars, rtvars>>

\* the parser yields Event::End(Tag::CodeBlock(info)) of the open block
EndCodeBlock ==
    /\ pc = "parse"
    /\ nev < MaxEvents
    /\ open_block # None
    /\ LET cbi == parse_code_block_info(Unwrap(open_block).info) IN
          IF code_buffer # None
          THEN IF cbi.is_old_template
               THEN /\ old_template' = Some(Concat(Unwrap(code_buffer)))
                    /\ UNCHANGED <<tests, name_gen>>
               ELSE /\ tests' = Append(tests,
                          [name |-> TestNameGen_name(Unwrap(name_gen)),
                           text |-> Unwrap(code_buffer),
                           ignore |-> cbi.ignore,
                           no_run |-> cbi.no_run,
                           should_panic |-> cbi.should_panic,
                           template |-> cbi.template])
                    /\ name_gen' = Some(TestNameGen_advanced(Unwrap(name_gen)))
                    /\ UNCHANGED old_template
          ELSE UNCHANGED <<tests, name_gen, old_template>>
    /\ code_buffer' = None
    /\ blocks' = Append(blocks, Unwrap(open_block))
    /\ open_block' = None
    /\ nev' = nev + 1
    /\ UNCHANGED <<docs, pass, pc, error, di, doc_tests, emitvars, filevars,
                   cleanvars, infovars, namevars, rtvars>>

\* the parser yields any other event (`_ => ()`), between code blocks
OtherEvent ==
    /\ pc = "parse"
    /\ nev < MaxEvents
    /\ open_block = None
    /\ nev' = nev + 1
    /\ UNCHANGED <<docs, pass, pc, error, di, parsevars, doc_tests, emitvars,
                   filevars, cleanvars, infovars, namevars, rtvars>>

\* the parser is exhausted: load_templates, Ok(DocTest), doc_tests.push.
\* load_templates may fail on an unreadable sibling: run's unwrap panics.
EndOfDocument ==
    /\ pc = "parse"
    /\ open_block = None
    /\ \E sibling \in SiblingStates :
          LET loaded == load_templates(sibling) IN
          IF loaded.ok
          THEN /\ doc_tests' = Append(doc_tests,
                      [path |-> DocPath(docs[di]),
                       old_template |-> old_template,
                       tests |-> tests,
                       templates |-> loaded.map])
               /\ di' = di + 1
               /\ pc' = "extract"
               /\ error' = error
          ELSE /\ pc' = "panicked"
               /\ error' = Some(IoErrorMessage)
               /\ UNCHANGED <<doc_tests, di>>
    /\ UNCHANGED <<docs, pass, nev, parsevars, emitvars, filevars,
                   cleanvars, infovars, namevars, rtvars>>


\* the text emit_tests starts out with
Preamble == <<"extern crate skeptic;", "\n">>

\* the literals of create_test_runner's format strings
LitFormatOpen == "    let s = &format!(r####\""
LitFormatMid == "\"####, r####\""
LitFormatClose == "\"####);"
LitCompileTest == "    skeptic::rt::compile_test(r#\""
LitRunTest == "    skeptic::rt::run_test(r#\""

\* the mutant: the no_run flag is not looked at, every test is run
create_test_runner_always_runs(out_dir, template, test) ==
    LET tpl == IF template # None THEN Unwrap(template) ELSE <<"{}">>
        test_text == create_test_input(test.text)
    IN  (IF test.ignore THEN <<"#[ignore]", "\n">> ELSE <<>>)
        \o (IF test.should_panic THEN <<"#[should_panic]", "\n">> ELSE <<>>)
        \o <<"#[test] fn ">> \o test.name \o <<"() {", "\n">>
        \o <<LitFormatOpen, "\n">> \o tpl \o <<LitFormatMid>>
        \o test_text \o <<LitFormatClose, "\n">>
        \o <<LitRunTest>>
        \o out_dir \o <<"\"#, s);", "\n">>
        \o <<"}", "\n">>
        \o <<"\n">>

create_test_runner(out_dir, template, test) ==
    LET tpl == IF template # None THEN Unwrap(template) ELSE <<"{}">>
        test_text == create_test_input(test.text)
    IN  (IF test.ignore THEN <<"#[ignore]", "\n">> ELSE <<>>)
        \o (IF test.should_panic THEN <<"#[should_panic]", "\n">> ELSE <<>>)
        \o <<"#[test] fn ">> \o test.name \o <<"() {", "\n">>
        \o <<LitFormatOpen, "\n">> \o tpl \o <<LitFormatMid>>
        \o test_text \o <<LitFormatClose, "\n">>
        \o (IF test.no_run THEN <<LitCompileTest>> ELSE <<LitRunTest>>)
        \o out_dir \o <<"\"#, s);", "\n">>
        \o <<"}", "\n">>
        \o <<"\n">>

\* format!("template {} not found for {}", t, doc_test.path.display())
TemplateNotFound(t, path) ==
    <<"template ">> \o t \o <<" not found for ">> \o path

\* the mutant: the document's legacy template is tried first
ResolveTemplate_legacy_first(doc_test, test) ==
    IF doc_test.old_template # None
    THEN [ok |-> TRUE, template |-> doc_test.old_template]
    ELSE IF test.template # None
    THEN LET t == Unwrap(test.template)
             found == MapGet(doc_test.templates, t)
         IN  IF found # None
             THEN [ok |-> TRUE, template |-> Some(Unwrap(found))]
             ELSE [ok |-> FALSE, message |-> TemplateNotFound(t, doc_test.path)]
    ELSE [ok |-> TRUE, template |-> doc_test.old_template]

\* the mutant: a missing named template falls back to the legacy template
ResolveTemplate_fallback(doc_test, test) ==
    IF test.template # None
    THEN LET t == Unwrap(test.template)
             found == MapGet(doc_test.templates, t)
         IN  IF found # None
             THEN [ok |-> TRUE, template |-> Some(Unwrap(found))]
             ELSE [ok |-> TRUE, template |-> doc_test.old_template]
    ELSE [ok |-> TRUE, template |-> doc_test.old_template]

\* emit_tests: the template handed to create_test_runner for one test, or
\* the message `expect` panics with
ResolveTemplate(doc_test, test) ==
    IF test.template # None
    THEN LET t == Unwrap(test.template)
             found == MapGet(doc_test.templates, t)
         IN  IF found # None
             THEN [ok |-> TRUE, template |-> Some(Unwrap(found))]
             ELSE [ok |-> FALSE, message |-> TemplateNotFound(t, doc_test.path)]
    ELSE [ok |-> TRUE, template |-> doc_test.old_template]

RECURSIVE LoopPosition_first_of_doc(_, _, _)
\* the mutant: the inner loop ends after the first test of a document
LoopPosition_first_of_doc(dts, e, t) ==
    IF e > Len(dts) THEN <<Len(dts) + 1, 1>>
    ELSE IF t > Len(dts[e].tests) \/ t > 1
         THEN LoopPosition_first_of_doc(dts, e + 1, 1)
    ELSE <<e, t>>

RECURSIVE LoopPosition(_, _, _)
\* the loops of emit_tests: the first test at or after (e, t), or
\* <<Len(dts) + 1, 1>> when the outer loop has ended
LoopPosition(dts, e, t) ==
    IF e > Len(dts) THEN <<Len(dts) + 1, 1>>
    ELSE IF t > Len(dts[e].tests) THEN LoopPosition(dts, e + 1, 1)
    ELSE <<e, t>>

\* extract_tests returns Ok(DocTestSuite); emit_tests begins
ExtractDone ==
    /\ pc = "extract"
    /\ di > Len(docs)
    /\ pc' = "emit"
    /\ out' = Preamble
    /\ units' = <<>>
    /\ ei' = LoopPosition(doc_tests, 1, 1)[1]
    /\ ti' = LoopPosition(doc_tests, 1, 1)[2]
    /\ UNCHANGED <<docs, pass, error, di, nev, parsevars, doc_tests, filevars,
                   cleanvars, infovars, namevars, rtvars>>

\* emit_tests: one iteration of `for test in &doc_test.tests`
EmitTest ==
    /\ pc = "emit"
    /\ ei <= Len(doc_tests)
    /\ LET doc_test == doc_tests[ei]
           test == doc_test.tests[ti]
           resolved == ResolveTemplate(doc_test, test)
       IN  IF resolved.ok
           THEN LET test_string == create_test_runner(OutDir, resolved.template, test)
                    next == LoopPosition(doc_tests, ei, ti + 1)
                IN  /\ out' = out \o test_string
                    /\ units' = Append(units, [doc |-> ei, test |-> ti,
                                               text |-> test_string])
                    /\ ei' = next[1]
                    /\ ti' = next[2]
                    /\ UNCHANGED <<pc, error>>
           ELSE /\ pc' = "panicked"
                /\ error' = Some(resolved.message)
                /\ UNCHANGED emitvars
    /\ UNCHANGED <<docs, pass, di, nev, parsevars, doc_tests, filevars,
                   cleanvars, infovars, namevars, rtvars>>

IoOutcomes == {"ok", "open_err", "create_err", "write_err"}

\* the mutant: the file is written without comparing its content
write_if_contents_changed_always(file, contents, io) ==
    IF io = "open_err" /\ file # None
    THEN [ok |-> FALSE, file |-> file, created |-> FALSE]
    ELSE IF io = "create_err" THEN [ok |-> FALSE, file |-> file, created |-> FALSE]
    ELSE IF io = "write_err" THEN [ok |-> FALSE, file |-> Some(<<>>), created |-> TRUE]
    ELSE [ok |-> TRUE, file |-> Some(contents), created |-> TRUE]

\* write_if_contents_changed(name, contents) on the file at name, which is
\* Some(content) or None (NotFound); io is what the file system does:
\*   open_err    File::open or read_to_string fails on the existing file
\*   create_err  File::create fails, the file is as before
\*   write_err   File::create has truncated the file, file.write fails
\* The result: Ok/Err, the file afterwards, whether it was created.
\* (file.write is taken to write all of contents when it succeeds.)
write_if_contents_changed(file, contents, io) ==
    IF io = "open_err" /\ file # None
    THEN [ok |-> FALSE, file |-> file, created |-> FALSE]
    ELSE IF file # None /\ Unwrap(file) = contents
    THEN [ok |-> TRUE, file |-> file, created |-> FALSE]
    ELSE IF io = "create_err" THEN [ok |-> FALSE, file |-> file, created |-> FALSE]
    ELSE IF io = "write_err" THEN [ok |-> FALSE, file |-> Some(<<>>), created |-> TRUE]
    ELSE [ok |-> TRUE, file |-> Some(contents), created |-> TRUE]

\* emit_tests: the loops have ended; write_if_contents_changed(&config.out_file, &out)
WriteOut ==
    /\ pc = "emit"
    /\ ei > Len(doc_tests)
    /\ \E io \in IoOutcomes :
          LET r == write_if_contents_changed(artifact, out, io) IN
          /\ artifact' = r.file
          /\ mtime' = IF r.created THEN mtime + 1 ELSE mtime
          /\ pc' = IF r.ok THEN "done" ELSE "panicked"
          /\ error' = IF r.ok THEN error ELSE Some(IoErrorMessage)
    /\ UNCHANGED <<docs, pass, di, nev, parsevars, doc_tests, emitvars, start,
                   cleanvars, infovars, namevars, rtvars>>

\* the build script runs again: generate_doc_tests with the same docs
NewPass ==
    /\ pc \in {"done", "panicked"}
    /\ pass < MaxPasses
    /\ pass' = pass + 1
    /\ pc' = "extract"
    /\ error' = None
    /\ di' = 1
    /\ open_block' = None /\ blocks' = <<>> /\ code_buffer' = None
    /\ tests' = <<>> /\ old_template' = None /\ name_gen' = None
    /\ doc_tests' = <<>>
    /\ ei' = 0 /\ ti' = 0 /\ out' = <<>> /\ units' = <<>>
    /\ start' = [artifact |-> artifact, mtime |-> mtime]
    /\ UNCHANGED <<docs, nev, artifact, mtime, cleanvars, infovars, namevars, rtvars>>

Next ==
    \/ OpenDoc \/ StartCodeBlock \/ Text \/ EndCodeBlock \/ OtherEvent
    \/ EndOfDocument \/ ExtractDone \/ EmitTest \/ WriteOut \/ NewPass
Spec == Init /\ [][Next]_vars


(***************************************************************************)
(* Properties of the generation pass.                                      *)
(***************************************************************************)
\* the sanitized stems of the documents, written out
ExpectedRoot(doc) == IF doc = DocD THEN <<"d">> ELSE <<"m", "_", "2">>

\* the closed blocks that are runnable samples and not legacy templates
SampleInfos ==
    {i \in DocInfos : TokRust \in TokensOf(i) /\ TokSkepticTemplate \notin TokensOf(i)}
LegacyInfos == {i \in DocInfos : TokSkepticTemplate \in TokensOf(i)}
SampleBlocks(bs) == SelectSeq(bs, LAMBDA b : b.info \in SampleInfos)

\* ts are the tests of the sample blocks among bs, named root_0, root_1, ...
NamedInOrder(ts, bs, doc) ==
    /\ Len(ts) = Len(SampleBlocks(bs))
    /\ \A i \in 1..Len(ts) :
          /\ ts[i].name = ExpectedRoot(doc) \o <<"_">> \o Decimal(i - 1)
          /\ ts[i].text = SampleBlocks(bs)[i].text

\* C2: while and after a document is read, its tests are exactly the
\* runnable, non-legacy-template blocks closed so far, in document order,
\* the i-th (from 0) named <sanitized stem>_i: legacy-template blocks and
\* non-runnable blocks consume no counter value.
C2_TestsCountedAndNamed ==
    /\ pc = "parse" => NamedInOrder(tests, blocks, docs[di])
    /\ (pc = "extract" /\ di > 1) =>
          /\ Len(doc_tests) = di - 1
          /\ NamedInOrder(doc_tests[di - 1].tests, blocks, docs[di - 1])

\* C2 witness: a document read to its end with a legacy-template block
\* followed by a sample block, which is the test <stem>_0
C2_Witness ==
    /\ pc = "extract" /\ di > 1
    /\ Len(blocks) = 2
    /\ blocks[1].info \in LegacyInfos
    /\ blocks[2].info \in SampleInfos
    /\ Len(doc_tests[di - 1].tests) = 1
    /\ doc_tests[di - 1].tests[1].name = ExpectedRoot(docs[di - 1]) \o <<"_", "0">>

\* position of the first symbol c in s
IndexOf(s, c) == CHOOSE i \in 1..Len(s) : s[i] = c /\ \A j \in 1..(i - 1) : s[j] # c
\* the template text of an assembled unit: what stands between the opening
\* of the format string (and its newline) and the end of the raw string
TemplateOf(text) ==
    SubSeq(text, IndexOf(text, LitFormatOpen) + 2, IndexOf(text, LitFormatMid) - 1)

\* C3: the template in a test's assembled unit is the named template the
\* test references, if it references one (legacy template or not); else
\* the document's legacy template, if there is one; else "{}" alone.
C3_TemplatePriority ==
    \A k \in 1..Len(units) :
        LET dt == doc_tests[units[k].doc]
            t == dt.tests[units[k].test]
        IN  TemplateOf(units[k].text) =
                IF t.template # None
                THEN IF Unwrap(t.template) \in DOMAIN dt.templates
                     THEN dt.templates[Unwrap(t.template)]
                     ELSE <<"no such template">>
                ELSE IF dt.old_template # None THEN Unwrap(dt.old_template)
                ELSE <<"{}">>

\* C3 witness: a unit of a test that names a template, in a document that
\* has a different legacy template
C3_Witness ==
    \E k \in 1..Len(units) :
        LET dt == doc_tests[units[k].doc]
            t == dt.tests[units[k].test]
        IN  /\ t.template # None
            /\ dt.old_template # None
            /\ TemplateOf(units[k].text) # Unwrap(dt.old_template)
            /\ TemplateOf(units[k].text) = dt.templates[Unwrap(t.template)]

\* the tests of the suite that name a template their document does not have
MissingRefs(dts) ==
    {p \in {<<e, t>> : e \in 1..Len(dts), t \in 1..MaxEvents} :
        /\ p[2] <= Len(dts[p[1]].tests)
        /\ dts[p[1]].tests[p[2]].template # None
        /\ Unwrap(dts[p[1]].tests[p[2]].template) \notin DOMAIN dts[p[1]].templates}

IsTemplateError(e) == e # None /\ Unwrap(e)[1] = "template "

\* C4: if a test of any document references a template its document's
\* store lacks, the pass does not complete and writes nothing (the file at
\* out_file is as when the pass began); the panic message names the
\* template and the document.
C4_MissingTemplateAborts ==
    /\ (pc \in {"emit", "done", "panicked"} /\ MissingRefs(doc_tests) # {}) =>
          /\ pc # "done"
          /\ artifact = start.artifact
          /\ mtime = start.mtime
    /\ IsTemplateError(error) =>
          /\ pc = "panicked"
          /\ \E p \in MissingRefs(doc_tests) :
                Unwrap(error) =
                    <<"template ">> \o Unwrap(doc_tests[p[1]].tests[p[2]].template)
                    \o <<" not found for ">> \o RootDir \o <<"/">> \o docs[p[1]]

\* C4 witness: the pass panicked on a missing template of the second
\* document, after a unit was assembled; the file that was there is untouched
C4_Witness ==
    /\ pc = "panicked"
    /\ IsTemplateError(error)
    /\ MissingRefs(doc_tests) # {}
    /\ \A p \in MissingRefs(doc_tests) : p[1] = 2
    /\ Len(units) >= 1
    /\ artifact # None /\ artifact = start.artifact

\* C5: the file at out_file is created or changed only by the writer, and
\* only when no file is there or its content differs from the generated
\* content; with identical content nothing is written.
C5_WriteOnlyIfChanged ==
    [][(mtime' # mtime \/ artifact' # artifact) =>
          /\ pc = "emit"
          /\ ei > Len(doc_tests)
          /\ artifact = None \/ Unwrap(artifact) # out]_vars

\* C5 witness: a later pass generated, with at least one test, exactly the
\* content of the file that was there, and completed without creating it
C5_Witness ==
    /\ pc = "done"
    /\ Len(units) >= 1
    /\ start.artifact = Some(out)
    /\ artifact = Some(out)
    /\ mtime = start.mtime

\* C13: the writer runs only after every document of the list was
\* extracted; while documents are extracted nothing is assembled and the
\* file at out_file is as when the pass began; and when a document or an
\* existing sibling file cannot be read, at any position of the list, the
\* pass ends there: no file is created and the file that was there is
\* unchanged.
C13_ReadErrorAbortsBeforeOutput ==
    /\ pc \in {"emit", "done"} =>
          /\ di = Len(docs) + 1
          /\ Len(doc_tests) = Len(docs)
          /\ \A e \in 1..Len(docs) : doc_tests[e].path = DocPath(docs[e])
    /\ pc \in {"extract", "parse"} =>
          /\ out = <<>> /\ units = <<>>
          /\ artifact = start.artifact /\ mtime = start.mtime
    /\ (pc = "panicked" /\ ei = 0) =>
          /\ error = Some(IoErrorMessage)
          /\ di <= Len(docs)
          /\ Len(doc_tests) = di - 1
          /\ out = <<>> /\ units = <<>>
          /\ artifact = start.artifact /\ mtime = start.mtime

\* C13 witness: the second document could not be read after the first one
\* gave a test; the file that was there is untouched
C13_Witness ==
    /\ pc = "panicked" /\ ei = 0
    /\ di = 2
    /\ Len(doc_tests) = 1 /\ Len(doc_tests[1].tests) >= 1
    /\ out = <<>>
    /\ artifact # None /\ artifact = start.artifact /\ mtime = start.mtime

\* the info strings of the runnable blocks
RunnableInfos == {i \in DocInfos : TokRust \in TokensOf(i)}

\* C16: over every well-formed event stream, code_buffer is present exactly
\* while a runnable block is open and then holds the text fragments of that
\* block so far, in order; after a block's close and in prose it is absent,
\* and inside a non-runnable block it is absent too, so text arriving there
\* is stored nowhere; the text of each Test is the sequence of fragments
\* between the open and the close of its own block, verbatim.
C16_BufferOnlyInsideRunnableBlock ==
    pc = "parse" =>
        /\ open_block = None => code_buffer = None
        /\ open_block # None =>
              IF Unwrap(open_block).info \in RunnableInfos
              THEN code_buffer = Some(Unwrap(open_block).text)
              ELSE code_buffer = None
        /\ Len(tests) = Len(SampleBlocks(blocks))
        /\ \A i \in 1..Len(tests) : tests[i].text = SampleBlocks(blocks)[i].text

\* C16 witness: after a sample with one fragment became a Test, a text
\* event arrived inside a non-runnable block and was not stored
C16_Witness ==
    /\ pc = "parse"
    /\ Len(tests) = 1 /\ tests[1].text = <<FragA>>
    /\ open_block # None
    /\ Unwrap(open_block).info \notin RunnableInfos
    /\ Unwrap(open_block).text # <<>>
    /\ code_buffer = None


(***************************************************************************)
(* SpecRt: the runtime harness.  A generated test function, assembled by   *)
(* create_test_runner from a Test, is called by the test framework, maybe  *)
(* several times and concurrently; each call is one invocation of          *)
(* skeptic::rt::compile_test or skeptic::rt::run_test.                     *)
(***************************************************************************)
\* the Tests a function is assembled from, and the templates handed over
RtTests ==
    {[name |-> <<"d", "_", "0">>, text |-> <<code>>, ignore |-> ig,
      no_run |-> nr, should_panic |-> sp, template |-> None] :
        code \in {FragA, FragB}, ig \in BOOLEAN, nr \in BOOLEAN, sp \in BOOLEAN}
RtTemplates == {None, Some(<<"m", " ", "{}">>)}

\* the test text of an assembled unit: the second raw string
TestTextOf(text) ==
    SubSeq(text, IndexOf(text, LitFormatMid) + 1, IndexOf(text, LitFormatClose) - 1)

RECURSIVE Substitute(_, _)
\* format!(<template>, <arg>): the placeholder replaced by the argument
Substitute(tpl, arg) ==
    IF tpl = <<>> THEN <<>>
    ELSE IF Head(tpl) = "{}" THEN arg \o Substitute(Tail(tpl), arg)
    ELSE <<Head(tpl)>> \o Substitute(Tail(tpl), arg)

\* the generated function's first statement:
\* let s = &format!(r####"\n<template>"####, r####"<test text>"####)
UnitSource(text) == <<"\n">> \o Substitute(TemplateOf(text), TestTextOf(text))

\* the generated function's second statement: the entry point it calls
UnitEntry(text) ==
    IF \E i \in 1..Len(text) : text[i] = LitCompileTest THEN "compile_test"
    ELSE "run_test"

InitRt ==
    /\ \E t \in RtTests, tpl \in RtTemplates :
          /\ rt_test = Some(t)
          /\ rt_unit = create_test_runner(OutDir, tpl, t)
    /\ inv = <<>>
    /\ tmp = <<>>
    /\ next_tmp = 0
    /\ cmds = <<>>
    /\ DepsIdle
    /\ CleanIdle /\ InfoIdle /\ NameIdle /\ GenIdle

\* the invocation leaves compile_test / run_test: `outdir` is dropped and
\* the temporary directory removed
DropTempDir(dirs, d) == [x \in DOMAIN dirs \ {d} |-> dirs[x]]

\* the test framework calls the generated function, which formats s and
\* calls its entry point
RtCall ==
    /\ Len(inv) < MaxInvocations
    /\ inv' = Append(inv, [entry |-> UnitEntry(rt_unit),
                           test_text |-> UnitSource(rt_unit),
                           pc |-> "tempdir",
                           dir |-> 0])
    /\ UNCHANGED <<rt_test, rt_unit, tmp, next_tmp, cmds,
                   cleanvars, infovars, namevars, genvars, depsvars>>

\* the mutant: the directory is named by the prefix alone, the same for all
RtTempDir_shared(i) ==
    /\ inv[i].pc = "tempdir"
    /\ \E ok \in BOOLEAN :
          IF ok
          THEN /\ next_tmp' = 1
               /\ tmp' = [x \in DOMAIN tmp \cup {1} |->
                             IF x = 1 THEN [src |-> None, bin |-> None]
                             ELSE tmp[x]]
               /\ inv' = [inv EXCEPT ![i].pc = "write", ![i].dir = 1]
          ELSE /\ inv' = [inv EXCEPT ![i].pc = "panicked"]
               /\ UNCHANGED <<tmp, next_tmp>>
    /\ UNCHANGED <<rt_test, rt_unit, cmds, cleanvars, infovars, namevars, genvars, depsvars>>

\* TempDir::new("rust-skeptic").unwrap(): a directory no one else has
RtTempDir(i) ==
    /\ inv[i].pc = "tempdir"
    /\ \E ok \in BOOLEAN :
          IF ok
          THEN /\ next_tmp' = next_tmp + 1
               /\ tmp' = [x \in DOMAIN tmp \cup {next_tmp + 1} |->
                             IF x = next_tmp + 1 THEN [src |-> None, bin |-> None]
                             ELSE tmp[x]]
               /\ inv' = [inv EXCEPT ![i].pc = "write", ![i].dir = next_tmp + 1]
          ELSE /\ inv' = [inv EXCEPT ![i].pc = "panicked"]
               /\ UNCHANGED <<tmp, next_tmp>>
    /\ UNCHANGED <<rt_test, rt_unit, cmds, cleanvars, infovars, namevars, genvars, depsvars>>

\* write_test_case(testcase_path, test_text): File::create and write_all,
\* both unwrapped
RtWriteTestCase(i) ==
    /\ inv[i].pc = "write"
    /\ \E ok \in BOOLEAN :
          IF ok
          THEN /\ tmp' = [tmp EXCEPT ![inv[i].dir].src = Some(inv[i].test_text)]
               /\ inv' = [inv EXCEPT ![i].pc = "compile"]
          ELSE /\ tmp' = DropTempDir(tmp, inv[i].dir)
               /\ inv' = [inv EXCEPT ![i].pc = "panicked"]
    /\ UNCHANGED <<rt_test, rt_unit, next_tmp, cmds,
                   cleanvars, infovars, namevars, genvars, depsvars>>

\* what compile_test_case / run_test_case meet:
\*   no_deps  fs::read_dir(deps_dir) fails (`expect` panics, no command run)
\*   failure  the command exits with a status that is not success, or
\*            cannot be spawned (`unwrap` panics)
\*   success  the command exits with success
CompileOutcomes == {"no_deps", "failure", "success"}
RunOutcomes == {"failure", "success"}

\* the mutant: the exit status of rustc is not looked at
RtCompileTestCase_ignores_status(i) ==
    /\ inv[i].pc = "compile"
    /\ \E o \in CompileOutcomes :
          LET d == inv[i].dir IN
          /\ cmds' = IF o = "no_deps" THEN cmds
                     ELSE Append(cmds, [inv |-> i, cmd |-> "rustc",
                                        arg |-> tmp[d].src,
                                        ok |-> o = "success"])
          /\ IF o # "no_deps"
             THEN IF inv[i].entry = "compile_test"
                  THEN /\ inv' = [inv EXCEPT ![i].pc = "returned"]
                       /\ tmp' = DropTempDir(tmp, d)
                  ELSE /\ inv' = [inv EXCEPT ![i].pc = "run"]
                       /\ tmp' = [tmp EXCEPT ![d].bin = tmp[d].src]
             ELSE /\ inv' = [inv EXCEPT ![i].pc = "panicked"]
                  /\ tmp' = DropTempDir(tmp, d)
    /\ UNCHANGED <<rt_test, rt_unit, next_tmp,
                   cleanvars, infovars, namevars, genvars, depsvars>>

\* compile_test_case(testcase_path, binary_path, rustc, out_dir), and for
\* compile_test the return that follows it
RtCompileTestCase(i) ==
    /\ inv[i].pc = "compile"
    /\ \E o \in CompileOutcomes :
          LET d == inv[i].dir IN
          /\ cmds' = IF o = "no_deps" THEN cmds
                     ELSE Append(cmds, [inv |-> i, cmd |-> "rustc",
                                        arg |-> tmp[d].src,
                                        ok |-> o = "success"])
          /\ IF o = "success"
             THEN IF inv[i].entry = "compile_test"
                  THEN /\ inv' = [inv EXCEPT ![i].pc = "returned"]
                       /\ tmp' = DropTempDir(tmp, d)
                  ELSE /\ inv' = [inv EXCEPT ![i].pc = "run"]
                       /\ tmp' = [tmp EXCEPT ![d].bin = tmp[d].src]
             ELSE /\ inv' = [inv EXCEPT ![i].pc = "panicked"]
                  /\ tmp' = DropTempDir(tmp, d)
    /\ UNCHANGED <<rt_test, rt_unit, next_tmp,
                   cleanvars, infovars, namevars, genvars, depsvars>>

\* run_test_case(binary_path, outdir.path()), and run_test's return
RtRunTestCase(i) ==
    /\ inv[i].pc = "run"
    /\ \E o \in RunOutcomes :
          LET d == inv[i].dir IN
          /\ cmds' = Append(cmds, [inv |-> i, cmd |-> "out.exe",
                                   arg |-> tmp[d].bin, ok |-> o = "success"])
          /\ inv' = [inv EXCEPT ![i].pc = IF o = "success" THEN "returned"
                                          ELSE "panicked"]
          /\ tmp' = DropTempDir(tmp, d)
    /\ UNCHANGED <<rt_test, rt_unit, next_tmp,
                   cleanvars, infovars, namevars, genvars, depsvars>>

NextRt ==
    \/ RtCall
    \/ \E i \in 1..Len(inv) : RtTempDir(i)
    \/ \E i \in 1..Len(inv) : RtWriteTestCase(i)
    \/ \E i \in 1..Len(inv) : RtCompileTestCase(i)
    \/ \E i \in 1..Len(inv) : RtRunTestCase(i)
SpecRt == InitRt /\ [][NextRt]_vars

\* C6: the function assembled for a no_run test calls compile_test and not
\* run_test, and no invocation of it ever reaches the run step or runs the
\* compiled program, whether rustc succeeds or fails.
C6_NoRunNeverRuns ==
    (rt_test # None /\ Unwrap(rt_test).no_run) =>
        /\ \E k \in 1..Len(rt_unit) : rt_unit[k] = LitCompileTest
        /\ \A k \in 1..Len(rt_unit) : rt_unit[k] # LitRunTest
        /\ \A i \in 1..Len(inv) :
              /\ inv[i].entry = "compile_test"
              /\ inv[i].pc # "run"
        /\ \A c \in 1..Len(cmds) : cmds[c].cmd = "rustc"

\* C6 witness: an invocation for a no_run test has returned after rustc
\* compiled its source with success
C6_Witness ==
    /\ rt_test # None /\ Unwrap(rt_test).no_run
    /\ \E i \in 1..Len(inv) :
          /\ inv[i].pc = "returned"
          /\ \E c \in 1..Len(cmds) :
                /\ cmds[c].inv = i
                /\ cmds[c].cmd = "rustc"
                /\ cmds[c].arg = Some(inv[i].test_text)

\* the positions in cmds of the commands of invocation i that ran c
CommandsOf(i, c) == {k \in 1..Len(cmds) : cmds[k].inv = i /\ cmds[k].cmd = c}

\* C12 (as claimed): every execution of the harness invokes the compiler
\* exactly once.
C12_CompilerExactlyOnce ==
    \A i \in 1..Len(inv) :
        inv[i].pc \in {"returned", "panicked"} =>
            Cardinality(CommandsOf(i, "rustc")) = 1

\* C12 (amended): an execution may end before the compile step, when the
\* temporary directory, the source file or the listing of the dependency
\* directory fails; then no command is run.  Otherwise it follows the state
\* machine: the compiler is invoked at most once and the program at most
\* once (no retry); the run step is entered, and the program run, only
\* after the compiler exited with success; a compiler failure is terminal
\* and the program is never run; run_test returns only after both commands
\* exited with success, compile_test returns after the compiler's success
\* without running the program; an execution that ran no compiler never
\* returns.
C12_HarnessStateMachine ==
    \A i \in 1..Len(inv) :
        LET cc == CommandsOf(i, "rustc")
            rr == CommandsOf(i, "out.exe")
        IN  /\ Cardinality(cc) <= 1
            /\ Cardinality(rr) <= 1
            /\ inv[i].pc \in {"tempdir", "write", "compile"} => cc = {} /\ rr = {}
            /\ inv[i].pc = "run" =>
                  /\ inv[i].entry = "run_test"
                  /\ rr = {}
                  /\ \E k \in cc : cmds[k].ok
            /\ \A r \in rr : \E k \in cc : k < r /\ cmds[k].ok
            /\ \A k \in cc : ~cmds[k].ok => inv[i].pc = "panicked" /\ rr = {}
            /\ \A r \in rr : ~cmds[r].ok => inv[i].pc = "panicked"
            /\ inv[i].pc = "returned" =>
                  /\ \E k \in cc : cmds[k].ok
                  /\ IF inv[i].entry = "run_test"
                     THEN \E r \in rr : cmds[r].ok
                     ELSE rr = {}

\* C12 witness: one execution passed (compiler and program exited with
\* success), another ended at the compiler's failure without a run
C12_Witness ==
    \E i, j \in 1..Len(inv) :
        /\ inv[i].entry = "run_test" /\ inv[i].pc = "returned"
        /\ \E k \in CommandsOf(i, "rustc"), r \in CommandsOf(i, "out.exe") :
              k < r /\ cmds[k].ok /\ cmds[r].ok
        /\ inv[j].pc = "panicked"
        /\ \E k \in CommandsOf(j, "rustc") : ~cmds[k].ok
        /\ CommandsOf(j, "out.exe") = {}


(***************************************************************************)
(* SpecPar: the test framework runs the functions of one generated file    *)
(* side by side: each call is an invocation of compile_test or run_test,   *)
(* and the steps of the invocations interleave in any order.               *)
(***************************************************************************)
\* the Tests of the generated file: two that are run, one compiled only
ParTests ==
    {[name |-> <<"d", "_", "0">>, text |-> <<FragA>>, ignore |-> FALSE,
      no_run |-> FALSE, should_panic |-> FALSE, template |-> None],
     [name |-> <<"d", "_", "1">>, text |-> <<FragB>>, ignore |-> FALSE,
      no_run |-> FALSE, should_panic |-> FALSE, template |-> None],
     [name |-> <<"d", "_", "2">>, text |-> <<FragA, FragB>>, ignore |-> FALSE,
      no_run |-> TRUE, should_panic |-> FALSE, template |-> None]}
\* its functions
ParUnits == {create_test_runner(OutDir, None, t) : t \in ParTests}

InitPar ==
    /\ rt_test = None
    /\ rt_unit = <<>>
    /\ inv = <<>>
    /\ tmp = <<>>
    /\ next_tmp = 0
    /\ cmds = <<>>
    /\ DepsIdle
    /\ CleanIdle /\ InfoIdle /\ NameIdle /\ GenIdle

\* the test framework calls one of the generated functions, which formats
\* s and calls its entry point
RtCallAny ==
    /\ Len(inv) < MaxInvocations
    /\ \E u \in ParUnits :
          inv' = Append(inv, [entry |-> UnitEntry(u),
                              test_text |-> UnitSource(u),
                              pc |-> "tempdir",
                              dir |-> 0])
    /\ UNCHANGED <<rt_test, rt_unit, tmp, next_tmp, cmds,
                   cleanvars, infovars, namevars, genvars, depsvars>>

NextPar ==
    \/ RtCallAny
    \/ \E i \in 1..Len(inv) : RtTempDir(i)
    \/ \E i \in 1..Len(inv) : RtWriteTestCase(i)
    \/ \E i \in 1..Len(inv) : RtCompileTestCase(i)
    \/ \E i \in 1..Len(inv) : RtRunTestCase(i)
SpecPar == InitPar /\ [][NextPar]_vars

\* the invocation is between TempDir::new and the drop of its directory
HoldsTempDir(i) == inv[i].pc \in {"write", "compile", "run"}

\* every invocation that holds a directory holds one of its own, with its
\* own source text and the binary compiled from it and nothing else; every
\* command ran on the files of the invocation that ran it
OwnFiles ==
    /\ \A i, j \in 1..Len(inv) :
          (i # j /\ HoldsTempDir(i) /\ HoldsTempDir(j)) => inv[i].dir # inv[j].dir
    /\ \A i \in 1..Len(inv) :
          HoldsTempDir(i) =>
              /\ inv[i].dir \in DOMAIN tmp
              /\ tmp[inv[i].dir].src =
                    IF inv[i].pc = "write" THEN None ELSE Some(inv[i].test_text)
              /\ tmp[inv[i].dir].bin =
                    IF inv[i].pc = "run" THEN Some(inv[i].test_text) ELSE None
    /\ \A k \in 1..Len(cmds) : cmds[k].arg = Some(inv[cmds[k].inv].test_text)

\* a step is a step of one invocation and leaves every other invocation and
\* every other directory as it was, whether the step succeeds or fails
OwnStep ==
    \A i \in 1..Len(inv) :
        inv'[i] # inv[i] =>
            /\ \A j \in 1..Len(inv) : j # i => inv'[j] = inv[j]
            /\ \A d \in DOMAIN tmp :
                  d # inv[i].dir => d \in DOMAIN tmp' /\ tmp'[d] = tmp[d]

\* C14: invocations running concurrently, in any interleaving, each use a
\* temporary directory of their own: the source file an invocation compiles
\* and the program it runs are the ones made from its own test text, and a
\* step of one invocation, its failure included, changes nothing of another
\* invocation or of another invocation's directory.
C14_InvocationsIsolated == []OwnFiles /\ [][OwnStep]_vars

\* C14 witness: two invocations with different test texts are under way at
\* once; one is about to run its own program, the other has failed after it
C14_Witness ==
    \E i, j \in 1..Len(inv) :
        /\ inv[i].test_text # inv[j].test_text
        /\ inv[i].pc = "run"
        /\ tmp[inv[i].dir].bin = Some(inv[i].test_text)
        /\ inv[j].pc = "panicked"
        /\ \E k \in CommandsOf(i, "rustc"), f \in CommandsOf(j, "rustc") :
              k < f /\ ~cmds[f].ok


(***************************************************************************)
(* SpecSuite: the generation pass over files with fixed contents.  Each    *)
(* document of the list is read whole: extract_tests_from_file is one      *)
(* step, its loop folded over the events the parser yields for the file.   *)
(***************************************************************************)
\* the mutant: a block tagged ignore is dropped, it is no Test
ExtractEvent_skips_ignored(st, ev) ==
    IF ev.kind = "Start" THEN [st EXCEPT !.buf = OnStart(st.buf, ev.arg)]
    ELSE IF ev.kind = "Text" THEN [st EXCEPT !.buf = OnText(st.buf, ev.arg)]
    ELSE IF ev.kind = "End" THEN
        LET cbi == parse_code_block_info(ev.arg) IN
        IF st.buf # None
        THEN IF cbi.is_old_template
             THEN [st EXCEPT !.buf = None,
                             !.old_template = Some(Concat(Unwrap(st.buf)))]
             ELSE IF cbi.ignore THEN [st EXCEPT !.buf = None]
             ELSE [st EXCEPT !.buf = None,
                             !.tests = Append(@,
                                 [name |-> TestNameGen_name(st.gen),
                                  text |-> Unwrap(st.buf),
                                  ignore |-> cbi.ignore,
                                  no_run |-> cbi.no_run,
                                  should_panic |-> cbi.should_panic,
                                  template |-> cbi.template]),
                             !.gen = TestNameGen_advanced(st.gen)]
        ELSE st
    ELSE st

\* the mutant: the first legacy template of a document is kept
ExtractEvent_first_legacy(st, ev) ==
    IF ev.kind = "Start" THEN [st EXCEPT !.buf = OnStart(st.buf, ev.arg)]
    ELSE IF ev.kind = "Text" THEN [st EXCEPT !.buf = OnText(st.buf, ev.arg)]
    ELSE IF ev.kind = "End" THEN
        LET cbi == parse_code_block_info(ev.arg) IN
        IF st.buf # None
        THEN IF cbi.is_old_template
             THEN [st EXCEPT !.buf = None,
                             !.old_template =
                                 IF st.old_template = None
                                 THEN Some(Concat(Unwrap(st.buf)))
                                 ELSE st.old_template]
             ELSE [st EXCEPT !.buf = None,
                             !.tests = Append(@,
                                 [name |-> TestNameGen_name(st.gen),
                                  text |-> Unwrap(st.buf),
                                  ignore |-> cbi.ignore,
                                  no_run |-> cbi.no_run,
                                  should_panic |-> cbi.should_panic,
                                  template |-> cbi.template]),
                             !.gen = TestNameGen_advanced(st.gen)]
        ELSE st
    ELSE st

\* extract_tests_from_file: one iteration of `for event in parser`;
\* st = [buf, tests, old_template, gen] are code_buffer, tests, old_template
\* and test_name_gen
ExtractEvent(st, ev) ==
    IF ev.kind = "Start" THEN [st EXCEPT !.buf = OnStart(st.buf, ev.arg)]
    ELSE IF ev.kind = "Text" THEN [st EXCEPT !.buf = OnText(st.buf, ev.arg)]
    ELSE IF ev.kind = "End" THEN
        LET cbi == parse_code_block_info(ev.arg) IN
        IF st.buf # None
        THEN IF cbi.is_old_template
             THEN [st EXCEPT !.buf = None,
                             !.old_template = Some(Concat(Unwrap(st.buf)))]
             ELSE [st EXCEPT !.buf = None,
                             !.tests = Append(@,
                                 [name |-> TestNameGen_name(st.gen),
                                  text |-> Unwrap(st.buf),
                                  ignore |-> cbi.ignore,
                                  no_run |-> cbi.no_run,
                                  should_panic |-> cbi.should_panic,
                                  template |-> cbi.template]),
                             !.gen = TestNameGen_advanced(st.gen)]
        ELSE st
    ELSE st

RECURSIVE ExtractEvents(_, _)
\* `for event in parser { ... }`
ExtractEvents(st, evs) ==
    IF evs = <<>> THEN st
    ELSE ExtractEvents(ExtractEvent(st, Head(evs)), Tail(evs))

\* the documents under root_dir: three whose stems sanitize to "d" (d.md,
\* D.md and d.md of a subdirectory) and two whose stems sanitize to "m_2"
DocUpperD == <<"D", ".", "m", "d">>
DocSubD == <<"s", "/", "d", ".", "m", "d">>
DocM_2 == <<"M", ".", "2", ".", "m", "d">>
SuiteDocs == {DocD, DocUpperD, DocSubD, DocM2, DocM_2}
SuiteDocLists == SeqsUpTo(SuiteDocs, MaxDocs)

InfoIgnore == TokRust \o <<",">> \o TokIgnore
InfoPanic == TokRust \o <<",">> \o TokShouldPanic
InfoNoRun == TokRust \o <<",">> \o TokNoRun
InfoAll == TokRust \o <<",">> \o TokIgnore \o <<",">> \o TokShouldPanic
           \o <<",">> \o TokNoRun
FragMain == <<"m", " ", "{}", "\n">>
EvOther == [kind |-> "Other", arg |-> <<>>]

\* the events the parser yields for each file
FileEvents(doc) ==
    IF doc = DocD THEN
        \* a sample, a legacy template, an ignored sample, a second legacy
        \* template, a sample that names the template t
        <<EvOther, EvText(FragA),
          EvStart(InfoRust), EvText(FragA), EvEnd(InfoRust),
          EvStart(InfoLegacy), EvText(FragB), EvEnd(InfoLegacy),
          EvText(FragA),
          EvStart(InfoIgnore), EvText(FragA), EvText(FragA), EvEnd(InfoIgnore),
          EvStart(InfoLegacy), EvText(FragMain), EvEnd(InfoLegacy),
          EvStart(InfoSktT), EvText(FragA), EvEnd(InfoSktT)>>
    ELSE IF doc = DocUpperD THEN
        \* a should_panic sample, a shell block, a sample with every flag
        <<EvStart(InfoPanic), EvText(FragA), EvEnd(InfoPanic),
          EvStart(InfoSh), EvText(FragA), EvEnd(InfoSh),
          EvOther,
          EvStart(InfoAll), EvText(FragA), EvEnd(InfoAll)>>
    ELSE IF doc = DocSubD THEN
        \* a legacy template and a no_run sample
        <<EvStart(InfoLegacy), EvText(FragB), EvEnd(InfoLegacy),
          EvStart(InfoNoRun), EvText(FragA), EvEnd(InfoNoRun)>>
    ELSE IF doc = DocM2 THEN
        \* prose only
        <<EvOther, EvText(FragA), EvOther>>
    ELSE
        \* one sample
        <<EvStart(InfoRust), EvText(FragA), EvEnd(InfoRust)>>

\* the code blocks of a file, as [info, text], in document order
RECURSIVE FileBlocks(_, _)
FileBlocks(evs, open) ==
    IF evs = <<>> THEN <<>>
    ELSE LET ev == Head(evs) IN
         IF ev.kind = "Start"
         THEN FileBlocks(Tail(evs), Some([info |-> ev.arg, text |-> <<>>]))
         ELSE IF ev.kind = "Text" /\ open # None
         THEN FileBlocks(Tail(evs),
                         Some([Unwrap(open) EXCEPT !.text = Append(@, ev.arg)]))
         ELSE IF ev.kind = "End"
         THEN <<Unwrap(open)>> \o FileBlocks(Tail(evs), None)
         ELSE FileBlocks(Tail(evs), open)

InitSuite ==
    /\ docs \in SuiteDocLists
    /\ pass = 1
    /\ pc = "extract"
    /\ error = None
    /\ di = 1
    /\ nev = 0
    /\ open_block = None /\ blocks = <<>> /\ code_buffer = None
    /\ tests = <<>> /\ old_template = None /\ name_gen = None
    /\ doc_tests = <<>>
    /\ ei = 0 /\ ti = 0 /\ out = <<>> /\ units = <<>>
    /\ artifact \in {None, Some(<<"extern crate skeptic;", "\n">>)}
    /\ mtime = 0
    /\ start = [artifact |-> artifact, mtime |-> 0]
    /\ CleanIdle /\ InfoIdle /\ NameIdle /\ RtIdle

\* extract_tests: one iteration of `for doc in &config.docs`, that is
\* extract_tests_from_file(path) and doc_tests.push.  The document or an
\* existing sibling file may be unreadable: run's unwrap then panics.
ExtractFile ==
    /\ pc = "extract"
    /\ di <= Len(docs)
    /\ \E readable \in BOOLEAN, sibling \in SiblingStates :
          LET path == DocPath(docs[di])
              evs == FileEvents(docs[di])
              st == ExtractEvents([buf |-> None, tests |-> <<>>,
                                   old_template |-> None,
                                   gen |-> TestNameGen_new(FileStem(path))], evs)
              loaded == load_templates(sibling)
          IN  IF ~readable
              THEN /\ pc' = "panicked"
                   /\ error' = Some(IoErrorMessage)
                   /\ UNCHANGED <<nev, parsevars, doc_tests, di>>
              ELSE /\ nev' = nev + Len(evs)
                   /\ open_block' = None
                   /\ blocks' = FileBlocks(evs, None)
                   /\ code_buffer' = st.buf
                   /\ tests' = st.tests
                   /\ old_template' = st.old_template
                   /\ name_gen' = Some(st.gen)
                   /\ IF loaded.ok
                      THEN /\ doc_tests' = Append(doc_tests,
                                  [path |-> path,
                                   old_template |-> st.old_template,
                                   tests |-> st.tests,
                                   templates |-> loaded.map])
                           /\ di' = di + 1
                           /\ UNCHANGED <<pc, error>>
                      ELSE /\ pc' = "panicked"
                           /\ error' = Some(IoErrorMessage)
                           /\ UNCHANGED <<doc_tests, di>>
    /\ UNCHANGED <<docs, pass, emitvars, filevars,
                   cleanvars, infovars, namevars, rtvars>>

NextSuite == ExtractFile \/ ExtractDone \/ EmitTest \/ WriteOut
SpecSuite == InitSuite /\ [][NextSuite]_vars

\* the info strings of the files' code blocks, by the tokens they have
SuiteInfos ==
    {InfoRust, InfoSh, InfoLegacy, InfoSktT, InfoIgnore, InfoPanic, InfoNoRun,
     InfoAll}
SuiteSampleInfos ==
    {i \in SuiteInfos : TokRust \in TokensOf(i) /\ TokSkepticTemplate \notin TokensOf(i)}
SuiteLegacyInfos ==
    {i \in SuiteInfos : TokRust \in TokensOf(i) /\ TokSkepticTemplate \in TokensOf(i)}
SuiteIgnoreInfos == {i \in SuiteInfos : TokIgnore \in TokensOf(i)}
SuitePanicInfos == {i \in SuiteInfos : TokShouldPanic \in TokensOf(i)}

\* the code blocks of each file, and those that are samples: runnable, no
\* legacy template
FileBlocksOf == [d \in SuiteDocs |-> FileBlocks(FileEvents(d), None)]
FileSamplesOf ==
    [d \in SuiteDocs |->
        SelectSeq(FileBlocksOf[d], LAMBDA b : b.info \in SuiteSampleInfos)]
FileSamples(doc) == FileSamplesOf[doc]
\* the sanitized stem of each document, written out
SuiteRoot(doc) ==
    IF doc \in {DocD, DocUpperD, DocSubD} THEN <<"d">> ELSE <<"m", "_", "2">>

HasSymbol(text, sym) == \E i \in 1..Len(text) : text[i] = sym
\* the unit has the annotation as a line of its own before the function
HasAnnotation(text, ann) ==
    \E i \in 1..(IndexOf(text, "#[test] fn ") - 1) :
        text[i] = ann /\ text[i + 1] = "\n"

\* C11: the unit assembled for a Test has the #[ignore] line exactly when
\* the Test's ignore flag is set and the #[should_panic] line exactly when
\* its should_panic flag is set; a runnable block tagged ignore is a Test
\* like any other: it takes the next counter value of its document, and its
\* unit has the full body, with the call of compile_test (no_run) or
\* run_test.
C11_AnnotationsFollowFlags ==
    /\ \A k \in 1..Len(units) :
          LET t == doc_tests[units[k].doc].tests[units[k].test]
              text == units[k].text
          IN  /\ HasAnnotation(text, "#[ignore]") <=> t.ignore
              /\ HasAnnotation(text, "#[should_panic]") <=> t.should_panic
              /\ HasSymbol(text, "#[test] fn ")
              /\ HasSymbol(text, LitFormatOpen)
              /\ TestTextOf(text) = create_test_input(t.text)
              /\ HasSymbol(text, LitCompileTest) <=> t.no_run
              /\ HasSymbol(text, LitRunTest) <=> ~t.no_run
    /\ \A e \in 1..Len(doc_tests) :
          LET samples == FileSamples(docs[e])
              ts == doc_tests[e].tests
          IN  /\ Len(ts) = Len(samples)
              /\ \A i \in 1..Len(ts) :
                    /\ ts[i].name = SuiteRoot(docs[e]) \o <<"_">> \o Decimal(i - 1)
                    /\ ts[i].text = samples[i].text
                    /\ ts[i].ignore <=> samples[i].info \in SuiteIgnoreInfos
                    /\ ts[i].should_panic <=> samples[i].info \in SuitePanicInfos

\* C11 witness: the unit of an ignored Test that is run, named <root>_1, is
\* followed by the unit of the Test named <root>_2
C11_Witness ==
    \E k \in 1..(Len(units) - 1) :
        LET t == doc_tests[units[k].doc].tests[units[k].test]
            n == doc_tests[units[k + 1].doc].tests[units[k + 1].test]
        IN  /\ t.ignore /\ ~t.should_panic /\ ~t.no_run
            /\ t.name = <<"d", "_", "1">>
            /\ HasAnnotation(units[k].text, "#[ignore]")
            /\ HasSymbol(units[k].text, LitRunTest)
            /\ units[k + 1].doc = units[k].doc
            /\ n.name = <<"d", "_", "2">>

\* the legacy-template blocks of a file, in document order
FileLegacyBlocksOf ==
    [d \in SuiteDocs |->
        SelectSeq(FileBlocksOf[d], LAMBDA b : b.info \in SuiteLegacyInfos)]
FileLegacyBlocks(doc) == FileLegacyBlocksOf[doc]
\* the text of the last of them, None if the file has none
LastLegacyTemplateOf ==
    [d \in SuiteDocs |->
        LET bs == FileLegacyBlocksOf[d] IN
        IF bs = <<>> THEN None ELSE Some(Concat(bs[Len(bs)].text))]
LastLegacyTemplate(doc) == LastLegacyTemplateOf[doc]
\* position among the file's code blocks of its i-th sample, and of its
\* last legacy-template block
SamplePosition(doc, i) ==
    LET bs == FileBlocksOf[doc] IN
    CHOOSE p \in 1..Len(bs) :
        /\ bs[p].info \in SuiteSampleInfos
        /\ Len(SelectSeq(SubSeq(bs, 1, p),
                         LAMBDA b : b.info \in SuiteSampleInfos)) = i
LastLegacyPosition(doc) ==
    LET bs == FileBlocksOf[doc] IN
    CHOOSE p \in 1..Len(bs) :
        /\ bs[p].info \in SuiteLegacyInfos
        /\ \A q \in (p + 1)..Len(bs) : bs[q].info \notin SuiteLegacyInfos

\* C15: the legacy template of a document is the text of the last
\* legacy-template block of that document, and the unit of every Test of
\* the document that names no template is assembled with it, wherever the
\* Test's block stands in the document; a document without one gives "{}",
\* whatever the other documents of the list have.
C15_LastLegacyTemplateWins ==
    /\ \A e \in 1..Len(doc_tests) :
          doc_tests[e].old_template = LastLegacyTemplate(docs[e])
    /\ \A k \in 1..Len(units) :
          LET doc == docs[units[k].doc]
              t == doc_tests[units[k].doc].tests[units[k].test]
          IN  t.template = None =>
                  TemplateOf(units[k].text) =
                      IF LastLegacyTemplate(doc) # None
                      THEN Unwrap(LastLegacyTemplate(doc))
                      ELSE <<"{}">>

\* C15 witness: a document with two different legacy templates, whose
\* first Test stands before both and has the second one; then a Test of
\* another document, which has none
C15_Witness ==
    \E k, l \in 1..Len(units) :
        LET doc == docs[units[k].doc]
            t == doc_tests[units[k].doc].tests[units[k].test]
            u == doc_tests[units[l].doc].tests[units[l].test]
        IN  /\ Len(FileLegacyBlocks(doc)) = 2
            /\ FileLegacyBlocks(doc)[1].text # FileLegacyBlocks(doc)[2].text
            /\ t.template = None
            /\ SamplePosition(doc, units[k].test) < LastLegacyPosition(doc)
            /\ TemplateOf(units[k].text) = Concat(FileLegacyBlocks(doc)[2].text)
            /\ units[l].doc # units[k].doc
            /\ u.template = None
            /\ LastLegacyTemplate(docs[units[l].doc]) = None
            /\ TemplateOf(units[l].text) = <<"{}">>

RECURSIVE TestsInOrder(_, _)
\* the Tests of the suite as <<document, test>> positions: by the position
\* of the document in the list, then by the position in the document
TestsInOrder(dts, e) ==
    IF e > Len(dts) THEN <<>>
    ELSE [t \in 1..Len(dts[e].tests) |-> <<e, t>>] \o TestsInOrder(dts, e + 1)

\* the name of the function an assembled unit declares
NameOf(text) ==
    SubSeq(text, IndexOf(text, "#[test] fn ") + 1, IndexOf(text, "() {") - 1)

\* C17: the generated content is the preamble, once, followed by the units
\* assembled so far; the k-th unit is the unit of the k-th Test of the
\* suite, counting by document in list order and then by position in the
\* document; when the loops end, and in a completed pass, there is one unit
\* for every Test.
C17_PreambleThenUnitsInOrder ==
    (pc \in {"emit", "done"} \/ (pc = "panicked" /\ ei > 0)) =>
        LET order == TestsInOrder(doc_tests, 1) IN
        /\ Len(doc_tests) = Len(docs)
        /\ \A e \in 1..Len(docs) :
              /\ doc_tests[e].path = DocPath(docs[e])
              /\ Len(doc_tests[e].tests) = Len(FileSamples(docs[e]))
        /\ out = Preamble \o Concat([k \in 1..Len(units) |-> units[k].text])
        /\ \A i \in 2..Len(out) : out[i] # Preamble[1]
        /\ Len(units) <= Len(order)
        /\ \A k \in 1..Len(units) :
              /\ <<units[k].doc, units[k].test>> = order[k]
              /\ NameOf(units[k].text) = doc_tests[order[k][1]].tests[order[k][2]].name
              /\ TestTextOf(units[k].text) =
                    create_test_input(doc_tests[order[k][1]].tests[order[k][2]].text)
        /\ (pc = "emit" /\ ei > Len(doc_tests)) => Len(units) = Len(order)
        /\ pc = "done" => Len(units) = Len(order)

\* C17 witness: a completed pass over two documents with tests, the first
\* with more than one: the file holds the preamble and their units in order
C17_Witness ==
    /\ pc = "done"
    /\ Len(docs) = 2
    /\ Len(doc_tests[1].tests) >= 2 /\ Len(doc_tests[2].tests) >= 2
    /\ docs[1] # docs[2]
    /\ Len(units) = Len(doc_tests[1].tests) + Len(doc_tests[2].tests)
    /\ units[Len(doc_tests[1].tests)].doc = 1
    /\ units[Len(doc_tests[1].tests) + 1].doc = 2
    /\ artifact = Some(out)
    /\ SubSeq(out, 1, 2) = Preamble

\* C18: in the generated content of one pass no two units declare a
\* function of the same name, whatever the documents of the list are.
C18_NamesDistinctAcrossDocuments ==
    \A k, l \in 1..Len(units) :
        k # l => NameOf(units[k].text) # NameOf(units[l].text)


(***************************************************************************)
(* SpecDeps: the arguments rt::compile_test_case gives the compiler, for   *)
(* bounded listings of the dependency directory.                           *)
(***************************************************************************)
\* PathBuf::pop: the path without its last component; the root stays
Pop(path) ==
    LET slash == LastIndexOf(path, "/") IN
    IF slash <= 1 THEN <<"/">> ELSE SubSeq(path, 1, slash - 1)
\* PathBuf::push / Path::join of a relative component
Push(path, c) == IF path = <<"/">> THEN path \o c ELSE path \o <<"/">> \o c

\* target_dir and deps_dir of compile_test_case
TargetDir(out_dir) == Pop(Pop(Pop(out_dir)))
DepsDir(out_dir) == Push(TargetDir(out_dir), <<"d", "e", "p", "s">>)

\* Path::extension: what follows the last "." of the file name, None if
\* that "." is missing or leads the name
Extension(path) ==
    LET name == FileName(path)
        dot == LastIndexOf(name, ".")
    IN  IF dot <= 1 THEN None ELSE Some(SliceFrom(name, dot))

\* the length of a character and of a string in bytes (UTF-8)
ByteLen(c) == IF c \in NonAsciiLetter THEN 2 ELSE 1
RECURSIVE ByteLenOf(_)
ByteLenOf(s) == IF s = <<>> THEN 0 ELSE ByteLen(Head(s)) + ByteLenOf(Tail(s))

\* &s[n..] with n a byte offset: Some(the slice), or None for the panic
\* when n is beyond the end of s or inside a character
SliceBytesFrom(s, n) ==
    IF \E k \in 0..Len(s) : ByteLenOf(SubSeq(s, 1, k)) = n
    THEN Some(SliceFrom(s, CHOOSE k \in 0..Len(s) : ByteLenOf(SubSeq(s, 1, k)) = n))
    ELSE None

\* name.rsplitn(2, '-').nth(1): what stands before the last '-', None if
\* the name has no '-'
RsplitnNth1(name) ==
    LET dash == LastIndexOf(name, "-") IN
    IF dash = 0 THEN None ELSE Some(SubSeq(name, 1, dash - 1))

TokRlib == <<"r", "l", "i", "b">>

\* compile_test_case: one iteration of `for dep in fs::read_dir(deps_dir)`;
\* the arguments added to cmd, or the panic of the slice
DepArgs(dir, file) ==
    LET dep == Push(dir, file)
        name == FileStem(dep)
        ext == Extension(dep)
    IN  IF ext = Some(TokRlib)
        THEN LET libname == RsplitnNth1(name) IN
             IF libname = None THEN [ok |-> TRUE, args |-> <<>>]
             ELSE LET sliced == SliceBytesFrom(Unwrap(libname), 3) IN
                  IF sliced = None THEN [ok |-> FALSE, args |-> <<>>]
                  ELSE [ok |-> TRUE,
                        args |-> << <<"--extern">>,
                                    Unwrap(sliced) \o <<"=">> \o dep >>]
        ELSE [ok |-> TRUE, args |-> <<>>]

RECURSIVE DepsArgs(_, _)
\* `for dep in fs::read_dir(deps_dir) { ... }`
DepsArgs(dir, files) ==
    IF files = <<>> THEN [ok |-> TRUE, args |-> <<>>]
    ELSE LET first == DepArgs(dir, Head(files)) IN
         IF ~first.ok THEN first
         ELSE LET rest == DepsArgs(dir, Tail(files)) IN
              [ok |-> rest.ok, args |-> first.args \o rest.args]

\* compile_test_case(in_path, out_path, rustc, out_dir) up to
\* interpret_output(cmd): the arguments of cmd and whether the compiler is
\* invoked (it is not when the loop panics)
compile_test_case_args(in_path, out_path, out_dir, files) ==
    LET externs == DepsArgs(DepsDir(out_dir), files) IN
    [invoked |-> externs.ok,
     args |-> <<in_path, <<"--verbose">>, <<"-o">>, out_path,
                <<"--crate-type=bin">>,
                <<"-L">>, TargetDir(out_dir),
                <<"-L">>, DepsDir(out_dir)>> \o externs.args]

\* the files of the dependency directory: two that cargo puts there, and
\* one whose name is put together from pieces
DepLibX == <<"l", "i", "b", "x", "-", "h", ".", "r", "l", "i", "b">>
DepSoX == <<"l", "i", "b", "x", "-", "h", ".", "s", "o">>
SampleDeps == {DepLibX, DepSoX}
NamePieces == {<<"l", "i", "b">>, <<"x">>, <<"-">>, <<"eacute">>}
DepExtensions == {<<>>, <<".">> \o TokRlib, <<".", "s", "o">>}
VariedDeps ==
    {Concat(ps) \o e : ps \in SeqsUpTo(NamePieces, MaxNameParts),
                       e \in DepExtensions} \ {<<>>}
DepListings ==
    {<<>>} \cup
    {b \o <<f>> \o a : b \in SeqsUpTo(SampleDeps, MaxDeps - 1),
                       a \in SeqsUpTo(SampleDeps, MaxDeps - 1),
                       f \in VariedDeps}

TestCasePath == <<"test.rs">>
BinaryPath == <<"out.exe">>

InitDeps ==
    /\ deps_dir \in DepListings
    /\ cmd_args = None
    /\ rt_test = None /\ rt_unit = <<>> /\ inv = <<>>
    /\ tmp = <<>> /\ next_tmp = 0 /\ cmds = <<>>
    /\ CleanIdle /\ InfoIdle /\ NameIdle /\ GenIdle

CompileTestCaseArgs ==
    /\ cmd_args = None
    /\ cmd_args' = Some(compile_test_case_args(TestCasePath, BinaryPath,
                                               OutDir, deps_dir))
    /\ UNCHANGED <<deps_dir, callvars, cleanvars, infovars, namevars, genvars>>

NextDeps == CompileTestCaseArgs
SpecDeps == InitDeps /\ [][NextDeps]_vars

\* the file is a dependency archive: its name ends in ".rlib"
IsRlib(file) ==
    Len(file) > 5 /\ SubSeq(file, Len(file) - 4, Len(file)) = <<".">> \o TokRlib
\* the library name the claim recovers from a base name: the trailing hash
\* segment (from the last '-') removed, and the prefix "lib" removed
ClaimedLibName(file) ==
    LET base == SubSeq(file, 1, Len(file) - 5)
        dash == LastIndexOf(base, "-")
        nohash == IF dash = 0 THEN base ELSE SubSeq(base, 1, dash - 1)
    IN  IF starts_with(nohash, <<"l", "i", "b">>) THEN SliceFrom(nohash, 3)
        ELSE nohash
RECURSIVE ClaimedExterns(_, _)
ClaimedExterns(dir, files) ==
    IF files = <<>> THEN <<>>
    ELSE (IF IsRlib(Head(files))
          THEN << <<"--extern">>,
                  ClaimedLibName(Head(files)) \o <<"=">> \o Push(dir, Head(files)) >>
          ELSE <<>>)
         \o ClaimedExterns(dir, Tail(files))

\* C19: for every listing of the dependency directory the enumeration
\* completes and the compiler is invoked, with exactly one --extern
\* <library name>=<path> for every .rlib file, the library name being the
\* base name without its trailing hash segment and without the prefix
\* "lib", and with nothing for any other file.
C19_OneExternPerRlib ==
    cmd_args # None =>
        /\ Unwrap(cmd_args).invoked
        /\ SubSeq(Unwrap(cmd_args).args, 10, Len(Unwrap(cmd_args).args))
              = ClaimedExterns(DepsDir(OutDir), deps_dir)

====
